---- MODULE Spec2Model ----
(***************************************************************************)
(* Model of the configuration-management REST API: the route handlers of   *)
(* app/routes (size, osFamily, location, osTemplate, catalog) over the     *)
(* TypeORM entity store.  Every handler is a small process: each `await`   *)
(* on a repository call is one atomic store step, and handlers of          *)
(* different requests interleave between their store steps.                *)
(***************************************************************************)
EXTENDS Integers, Sequences, FiniteSets, TLC

VARIABLES
  db,         \* entity name -> sequence of rows (row i has id i; rows are never removed)
  procs,      \* request slot -> the handler running in it (its locals and its response)
  now,        \* the store's clock (CURRENT_TIMESTAMP), ticks on every write
  started,    \* number of requests accepted so far
  deletedOk,  \* history: <<entity, id>> of every Delete that answered success
  uploads,    \* the upload directory: the files stored and those handed to cleanUp
  datastore   \* the shared DataSource: "undefined", "created", "initialized" or "failed"

vars == <<db, procs, now, started, deletedOk, uploads, datastore>>

----------------------------------------------------------------------------
(* Bounds of the model.                                                    *)

MaxRequests == 3
MaxInFlight == 2

Slots == 1..MaxInFlight

----------------------------------------------------------------------------
(* Values.  JavaScript `undefined` and SQL NULL are kept apart: a property *)
(* that is undefined is skipped by save(), a null one is written.          *)

Undef == "undefined"
Null == "null"
UndefNum == 0 - 1
UndefSeq == <<"undefined">>
NaN == 0 - 1

NoRow == [id |-> 0]
UndefRel == [rel |-> "undefined"]
NullRel == [rel |-> "null"]

Entities == {"Size", "OsFamily", "Location", "ApprovalPolicy", "OsTemplate", "Catalog"}

NumFields == {"cpus", "ram", "storage", "defaultLeasePeriod", "permittedMaxLeaseExtensions"}
SeqFields == {"availableNetworks", "policies"}

RelFields(e) ==
  CASE e = "OsTemplate" -> {"osFamily", "location"}
    [] e = "Catalog" -> {"defaultTemplate", "defaultApprovalPolicy"}
    [] OTHER -> {}

RelTarget(f) ==
  CASE f = "osFamily" -> "OsFamily"
    [] f = "location" -> "Location"
    [] f = "defaultTemplate" -> "OsTemplate"
    [] OTHER -> "ApprovalPolicy"

Writable(e) ==
  CASE e = "Size" -> {"name", "cpus", "ram", "storage"}
    [] e = "OsFamily" -> {"name", "shortName"}
    [] e = "Location" -> {"name", "availableNetworks"}
    [] e = "ApprovalPolicy" -> {"name", "policies"}
    [] e = "OsTemplate" -> {"name", "templateId", "osFamily", "location", "availableNetwork"}
    [] OTHER -> {"name", "shortName", "defaultTemplate", "defaultApprovalPolicy",
                 "defaultLeasePeriod", "permittedMaxLeaseExtensions", "type"}

AuditFields == {"createdBy", "updatedBy", "deletedBy", "createdAt", "updatedAt", "deletedAt"}

\* typeof v === 'undefined' for the value v of attribute f
IsUndefined(f, v) ==
  IF f \in NumFields \cup {"osFamily", "location", "defaultTemplate", "defaultApprovalPolicy",
                           "id", "createdAt", "updatedAt", "deletedAt"}
    THEN v = UndefNum
    ELSE IF f \in SeqFields THEN v = UndefSeq ELSE v = Undef

\* Array.prototype.includes
Includes(seq, x) == \E i \in 1..Len(seq) : seq[i] = x

----------------------------------------------------------------------------
(* The entity store (TypeORM repository over one table per entity).        *)

Exists(d, e, id) == id \in 1..Len(d[e])

\* a read that does not filter on deletedAt
LiveWithDeleted(d, e, id) == Exists(d, e, id)

\* a row that default reads see: present and not soft-deleted
Live(d, e, id) == Exists(d, e, id) /\ d[e][id].deletedAt = 0

\* the hydrated entity: relations in `rels` are joined (a soft-deleted target
\* joins as null), with loadRelationIds the others carry the raw foreign key,
\* otherwise they stay undefined
Hydrate(d, e, id, rels, relIds) ==
  LET row == d[e][id] IN
  [f \in DOMAIN row |->
     IF f \in RelFields(e)
       THEN IF f \in rels
              THEN IF Live(d, RelTarget(f), row[f]) THEN d[RelTarget(f)][row[f]] ELSE NullRel
              ELSE IF relIds THEN row[f] ELSE UndefRel
       ELSE row[f]]

\* repository.findOneBy({ id }) / findOne({ where: { id }, relations })
FindOne(d, e, id, rels, relIds) ==
  IF Live(d, e, id) THEN Hydrate(d, e, id, rels, relIds) ELSE NoRow

\* a lookup that also returns soft-deleted rows (findOneBy with withDeleted)
FindOneByWithDeleted(d, e, id) ==
  IF Exists(d, e, id) THEN Hydrate(d, e, id, {}, FALSE) ELSE NoRow

FindOneBy(d, e, id) == FindOne(d, e, id, {}, FALSE)

\* the column value save() writes for property f of the in-memory entity
Merge(e, row, mem) ==
  [f \in DOMAIN row |->
     IF f \notin DOMAIN mem THEN row[f]
     ELSE IF f \in RelFields(e)
       THEN IF mem[f] = UndefRel THEN row[f]
            ELSE IF mem[f] = NullRel THEN 0 ELSE mem[f].id
       ELSE IF IsUndefined(f, mem[f]) THEN row[f] ELSE mem[f]]

\* repository.save(entity) of an entity that has an id: the row is re-read
\* (soft-deleted rows included), every defined property that differs from the
\* stored column is written, and updatedAt is stamped when something is written
\* and updatedAt itself is not among the differing properties
SaveExisting(d, e, mem, t) ==
  LET row == d[e][mem.id]
      merged == Merge(e, row, mem)
      stamped == IF merged # row /\ merged.updatedAt = row.updatedAt
                   THEN [merged EXCEPT !.updatedAt = t] ELSE merged
  IN [d EXCEPT ![e][mem.id] = stamped]

\* the row an insert stores: undefined properties take the column default NULL
NewRow(e, mem, id, t) ==
  [f \in DOMAIN mem \cup {"id"} \cup AuditFields |->
     IF f = "id" THEN id
     ELSE IF f \in {"createdAt", "updatedAt"} THEN t
     ELSE IF f = "deletedAt" THEN 0
     ELSE IF f = "deletedBy" THEN Null
     ELSE IF f \in RelFields(e) THEN mem[f].id
     ELSE IF IsUndefined(f, mem[f]) THEN Null ELSE mem[f]]

\* repository.save(entity) of a new entity: insert with the next generated id
SaveNew(d, e, mem, t) == [d EXCEPT ![e] = Append(@, NewRow(e, mem, Len(@) + 1, t))]

\* repository.softDelete(id): UPDATE ... SET deletedAt = now WHERE id = ?, with no
\* condition on deletedAt; affected is the number of rows carrying the id
SoftDeleteAffected(d, e, id) == IF Exists(d, e, id) THEN 1 ELSE 0

SoftDelete(d, e, id, t) ==
  IF Exists(d, e, id)
    THEN [d EXCEPT ![e][id] = [@ EXCEPT !.deletedAt = t, !.updatedAt = t]]
    ELSE d

----------------------------------------------------------------------------
(* Response envelopes.                                                     *)

Success(payload) == [status |-> "success", payload |-> payload]
Error(code, message) == [status |-> "error", code |-> code, error |-> message]
\* the update handlers' catch block spells the key `codes`
ErrorCodes(code, message) == [status |-> "error", codes |-> code, error |-> message]
\* an exception thrown outside every try block: no envelope is sent
Uncaught == [status |-> "none"]
NoResp == [status |-> "pending"]

E1006 == Error("E1006", "Unable to find the requested resource with provided identifier")

Code(r) == IF "code" \in DOMAIN r THEN r.code ELSE "none"
Message(r) == IF "error" \in DOMAIN r THEN r.error ELSE "none"

----------------------------------------------------------------------------
(* Joi validation: the message of the first rule that fails, or "ok".      *)

Required(f) ==
  CASE f = "name" -> "Please provide a valid name"
    [] f = "shortName" -> "Please provide a valid shortName"
    [] f = "cpus" -> "Please provide a valid number for cpus"
    [] f = "ram" -> "Please provide a valid number for ram"
    [] f = "storage" -> "Please provide a valid number for storage"
    [] f = "availableNetworks" -> "Please provide a valid array for availableNetworks"
    [] f = "policies" -> "Please provide a valid array for policies"
    [] f = "templateId" -> "Please provide a valid templateId"
    [] f = "osFamily" -> "Please provide a valid number for osFamily"
    [] f = "location" -> "Please provide a valid number for location"
    [] f = "availableNetwork" -> "Please provide a valid availableNetwork"
    [] f = "defaultTemplate" -> "Please provide a valid number for defaultTemplate"
    [] f = "defaultApprovalPolicy" -> "Please provide a valid number for defaultApprovalPolicy"
    [] f = "defaultLeasePeriod" -> "Please provide a valid number for defaultLeasePeriod"
    [] f = "permittedMaxLeaseExtensions" -> "Please provide a valid number for permittedMaxLeaseExtensions"
    [] OTHER -> "Please provide a valid string for type"

\* the schema keys in declaration order
SchemaOrder(e) ==
  CASE e = "Size" -> <<"name", "cpus", "ram", "storage">>
    [] e = "OsFamily" -> <<"name", "shortName">>
    [] e = "Location" -> <<"name", "availableNetworks">>
    [] e = "ApprovalPolicy" -> <<"name", "policies">>
    [] e = "OsTemplate" -> <<"name", "templateId", "osFamily", "location", "availableNetwork">>
    [] OTHER -> <<"name", "shortName", "defaultTemplate", "defaultApprovalPolicy",
                  "defaultLeasePeriod", "permittedMaxLeaseExtensions", "type">>

\* keys marked .required() in the POST schema: all of them
RequiredOnCreate(e) == Writable(e)

\* keys marked .required() in the PUT schema
RequiredOnUpdate(e) == IF e = "OsTemplate" THEN {"osFamily", "location"} ELSE {}

FirstMissing(e, b, required) ==
  LET order == SchemaOrder(e)
      bad == {i \in 1..Len(order) : order[i] \in required /\ IsUndefined(order[i], b[order[i]])}
  IN IF bad = {} THEN "ok"
     ELSE Required(order[CHOOSE i \in bad : \A j \in bad : i <= j])

\* Joi.array().items(Joi.string().required()): at least one item
ValidateCreate(e, b) ==
  LET miss == FirstMissing(e, b, RequiredOnCreate(e)) IN
  IF miss # "ok" THEN miss
  ELSE IF e = "Location" /\ b.availableNetworks = <<>>
    THEN "Please provide a valid availableNetworks"
    ELSE "ok"

ValidateUpdate(e, id, b) ==
  IF id = NaN THEN "Please provide a valid number for id"
  ELSE FirstMissing(e, b, RequiredOnUpdate(e))

ValidateId(id) == IF id = NaN THEN "Please provide a valid number for id" ELSE "ok"

----------------------------------------------------------------------------
(* Request handlers.                                                       *)

Idle ==
  [op |-> "idle", ent |-> "none", id |-> 0, b |-> [none |-> 0], user |-> Undef,
   pc |-> "idle", mem |-> NoRow, toCleanUp |-> {}, resp |-> NoResp, affected |-> 0 - 1]

Free(s) == procs[s].pc \in {"idle", "done"}

\* a request is accepted into the lowest free slot
Begin(s) ==
  /\ started < MaxRequests
  /\ Free(s)
  /\ \A s2 \in Slots : s2 < s => ~Free(s2)
  /\ started' = started + 1

Request(op, e, id, b, user) ==
  [Idle EXCEPT !.op = op, !.ent = e, !.id = id, !.b = b, !.user = user]

\* the handler returns: its locals are gone, the request and its response stand
Done(p, r) == [p EXCEPT !.pc = "done", !.resp = r, !.mem = NoRow, !.toCleanUp = {}]

At(p, pc) == [p EXCEPT !.pc = pc]

Running(s, op, pc) == procs[s].op = op /\ procs[s].pc = pc

\* a store write at time `now`
Write(d) == db' = d /\ now' = IF d # db THEN now + 1 ELSE now

Unwritten == UNCHANGED <<db, now>>

\* if (typeof b[f] !== 'undefined') entity[f] = b[f], for each f of fs
Assign(mem, b, fs) ==
  [f \in DOMAIN mem |-> IF f \in fs /\ ~IsUndefined(f, b[f]) THEN b[f] ELSE mem[f]]

\* the entity as save() leaves it: generated columns filled in
Saved(d, e, mem, id) ==
  [f \in DOMAIN d[e][id] |->
     IF f \in DOMAIN mem /\ f \in RelFields(e) THEN mem[f]
     ELSE IF f \in RelFields(e) THEN UndefRel
     ELSE IF f \in {"id", "createdAt", "updatedAt", "deletedAt"} THEN d[e][id][f]
     ELSE IF f \in DOMAIN mem THEN mem[f] ELSE Undef]

(* POST / of size, osfamily, location *)
Create(s, e, b, user, ok) ==
  /\ Begin(s)
  /\ LET p == Request("create", e, 0, b, user)
         v == ValidateCreate(e, b)
         mem == [f \in Writable(e) \cup {"createdBy", "updatedBy"} |->
                   IF f \in Writable(e) THEN b[f] ELSE user]
         d == SaveNew(db, e, mem, now)
     IN IF v # "ok"
          THEN procs' = [procs EXCEPT ![s] = Done(p, Error("E1007", v))] /\ Unwritten
        ELSE IF ~ok
          THEN procs' = [procs EXCEPT ![s] = Done(p, Error("E1003", "Error creating resource"))]
               /\ Unwritten
        ELSE /\ procs' = [procs EXCEPT ![s] =
                   Done([p EXCEPT !.id = Len(d[e])], Success(Saved(d, e, mem, Len(d[e]))))]
             /\ Write(d)
  /\ UNCHANGED <<deletedOk, uploads, datastore>>

(* PUT /:id of size, osfamily, location: validation, fetch outside the try block,
   the attribute assignments *)
UpdateFetch(s, e, id, b, user, ok) ==
  /\ Begin(s)
  /\ LET p == Request("update", e, id, b, user)
         v == ValidateUpdate(e, id, b)
         row == FindOneBy(db, e, id)
     IN procs' = [procs EXCEPT ![s] =
          IF v # "ok" THEN Done(p, Error("E1007", v))
          ELSE IF ~ok THEN Done(p, Uncaught)
          ELSE IF row = NoRow THEN Done(p, E1006)
          ELSE [p EXCEPT !.pc = "save",
                         !.mem = [Assign(row, b, Writable(e)) EXCEPT !.updatedBy = user]]]
  /\ UNCHANGED <<db, now, deletedOk, uploads, datastore>>

\* an update that refuses to save when the row changed after it was read
UpdateSaveIfUnchanged(s, ok) ==
  /\ Running(s, "update", "save")
  /\ LET p == procs[s]
         d == SaveExisting(db, p.ent, p.mem, now)
     IN IF ~ok \/ db[p.ent][p.id].updatedAt # p.mem.updatedAt
          THEN procs' = [procs EXCEPT ![s] =
                 Done(p, ErrorCodes("E1004", "Error updating resource with provided identifier"))]
               /\ Unwritten
          ELSE /\ procs' = [procs EXCEPT ![s] = Done(p, Success(Saved(d, p.ent, p.mem, p.id)))]
               /\ Write(d)
  /\ UNCHANGED <<started, deletedOk, uploads, datastore>>

(* PUT /:id of every entity: try { save } catch { E1004 under the key codes } *)
UpdateSave(s, ok) ==
  /\ Running(s, "update", "save")
  /\ LET p == procs[s]
         d == SaveExisting(db, p.ent, p.mem, now)
     IN IF ~ok
          THEN procs' = [procs EXCEPT ![s] =
                 Done(p, ErrorCodes("E1004", "Error updating resource with provided identifier"))]
               /\ Unwritten
          ELSE /\ procs' = [procs EXCEPT ![s] = Done(p, Success(Saved(d, p.ent, p.mem, p.id)))]
               /\ Write(d)
  /\ UNCHANGED <<started, deletedOk, uploads, datastore>>

(* DELETE /:id of every entity: validation, fetch, deletedBy assignment *)
DeleteFetch(s, e, id, user, ok) ==
  /\ Begin(s)
  /\ LET p == Request("delete", e, id, [none |-> 0], user)
         v == ValidateId(id)
         row == FindOneBy(db, e, id)
     IN procs' = [procs EXCEPT ![s] =
          IF v # "ok" THEN Done(p, Error("E1007", v))
          ELSE IF ~ok THEN Done(p, Error("E1005", "Error deleting resource with provided identifier"))
          ELSE IF row = NoRow THEN Done(p, E1006)
          ELSE [p EXCEPT !.pc = "save", !.mem = [row EXCEPT !.deletedBy = user]]]
  /\ UNCHANGED <<db, now, deletedOk, uploads, datastore>>

\* a Delete that stamps deletedBy and deletedAt in a single store step
DeleteSaveAndSoftDelete(s, ok) ==
  /\ Running(s, "delete", "save")
  /\ LET p == procs[s] IN
     IF ~ok
       THEN procs' = [procs EXCEPT ![s] =
              Done(p, Error("E1005", "Error deleting resource with provided identifier"))]
            /\ Unwritten
       ELSE /\ procs' = [procs EXCEPT ![s] = At(p, "softDelete")]
            /\ Write(SoftDelete(SaveExisting(db, p.ent, p.mem, now), p.ent, p.id, now))
  /\ UNCHANGED <<started, deletedOk, uploads, datastore>>

(* DELETE /:id: await Repository.save(entity) *)
DeleteSave(s, ok) ==
  /\ Running(s, "delete", "save")
  /\ LET p == procs[s] IN
     IF ~ok
       THEN procs' = [procs EXCEPT ![s] =
              Done(p, Error("E1005", "Error deleting resource with provided identifier"))]
            /\ Unwritten
       ELSE /\ procs' = [procs EXCEPT ![s] = At(p, "softDelete")]
            /\ Write(SaveExisting(db, p.ent, p.mem, now))
  /\ UNCHANGED <<started, deletedOk, uploads, datastore>>

(* DELETE /:id: await Repository.softDelete(id) and the answer from result.affected *)
DeleteSoftDelete(s, ok) ==
  /\ Running(s, "delete", "softDelete")
  /\ LET p == procs[s]
         n == SoftDeleteAffected(db, p.ent, p.id)
     IN IF ~ok
          THEN /\ procs' = [procs EXCEPT ![s] =
                    Done(p, Error("E1005", "Error deleting resource with provided identifier"))]
               /\ Unwritten
               /\ UNCHANGED deletedOk
          ELSE /\ procs' = [procs EXCEPT ![s] =
                    Done([p EXCEPT !.affected = n],
                         IF n > 0 THEN [status |-> "success"] ELSE E1006)]
               /\ Write(SoftDelete(db, p.ent, p.id, now))
               /\ deletedOk' = IF n > 0 THEN deletedOk \cup {<<p.ent, p.id>>} ELSE deletedOk
  /\ UNCHANGED <<started, uploads, datastore>>

\* the attribute names of the `fields` (and the unused `sort`) schema of GET / and
\* GET /:id; the catalog schemas list icon and do not list id
FieldNames(e) ==
  (IF e = "Catalog" THEN {"icon"} ELSE {"id"})
    \cup Writable(e) \cup {"createdBy", "updatedBy", "createdAt", "updatedAt"}

\* JSON.parse(req.get(header) || '{}'): a header is absent, unparsable, or an object
\* given as its set of <<key, JSON value text>> members
NoHeader == {}
BadJson == {<<"", "not json">>}

Keys(map) == {kv[1] : kv \in map}

\* Joi.number() on a query string: the strings Number() converts
JoiNumber(v) == v \in {"0", "1", "2", "-2", "1.5"}

\* parseInt(v, 10)
ParseInt(v) ==
  CASE v = "0" -> 0
    [] v = "1" -> 1
    [] v = "2" -> 2
    [] v = "-2" -> 0 - 2
    [] v = "1.5" -> 1
    [] OTHER -> NaN

\* Joi.boolean() on a query string or JSON value: booleans and the strings it converts
JoiBoolean(v) == v \in {"true", "false", "\"true\"", "\"false\""}

\* Joi.boolean().valid(true)
JoiTrue(v) == v \in {"true", "\"true\""}

NotAllowed(k) ==
  CASE k = "id" -> "\"fields.id\" is not allowed"
    [] k = "icon" -> "\"fields.icon\" is not allowed"
    [] OTHER -> "\"fields.bogus\" is not allowed"

FieldOption(k) ==
  CASE k = "id" -> "Please provide a valid field option for id"
    [] k = "icon" -> "Please provide a valid field option for icon"
    [] OTHER -> "Please provide a valid field option for name"

\* the `fields` part of schema.validate: unknown keys are not allowed, known keys
\* must be true
ValidateFields(e, fields) ==
  LET unknown == {kv \in fields : kv[1] \notin FieldNames(e)}
      wrong == {kv \in fields : kv[1] \in FieldNames(e) /\ ~JoiTrue(kv[2])}
  IN IF wrong # {} THEN FieldOption((CHOOSE kv \in wrong : TRUE)[1])
     ELSE IF unknown # {} THEN NotAllowed((CHOOSE kv \in unknown : TRUE)[1])
     ELSE "ok"

\* schema.validate({ id, q, fields }) of GET /:id
ValidateGet(e, id, q, fields) ==
  IF id = NaN THEN "Please provide a valid number for id"
  ELSE IF q.relations # Undef /\ ~JoiBoolean(q.relations) THEN "Please provide a valid relations"
  ELSE ValidateFields(e, fields)

\* schema.validate({ q, fields }) of GET /: the sort map is not passed in
ValidateList(e, q, fields) ==
  IF q.page # Undef /\ ~JoiNumber(q.page) THEN "Please provide a valid page"
  ELSE IF q.limit # Undef /\ ~JoiNumber(q.limit) THEN "Please provide a valid limit"
  ELSE IF q.relations # Undef /\ ~JoiBoolean(q.relations) THEN "Please provide a valid relations"
  ELSE ValidateFields(e, fields)

\* query.select = fields: the selected columns of a row (all of them without a map)
Project(row, fields) ==
  IF fields = {} THEN row ELSE [f \in DOMAIN row \cap Keys(fields) |-> row[f]]

\* has(q, 'relations') && q.relations === 'true'
Joined(e, q) == IF q.relations = "true" THEN RelFields(e) ELSE {}

(* GET /:id of every entity; the header is parsed outside the try block *)
GetById(s, e, id, q, fields, ok) ==
  /\ Begin(s)
  /\ LET p == Request("get", e, id, [q |-> q, fields |-> fields], Undef)
         v == ValidateGet(e, id, q, fields)
         rels == Joined(e, q)
         row == FindOne(db, e, id, rels, rels = {})
     IN procs' = [procs EXCEPT ![s] =
          IF fields = BadJson THEN Done(p, Uncaught)
          ELSE IF v # "ok" THEN Done(p, Error("E1007", v))
          ELSE IF ~ok
            THEN Done(p, Error("E1002", "Error fetching data from resource with provided identifier"))
          ELSE IF row = NoRow THEN Done(p, E1006)
          ELSE Done(p, Success(Project(row, fields)))]
  /\ UNCHANGED <<db, now, deletedOk, uploads, datastore>>

DefaultLimit == 50

\* Math.ceil(count / limit); a zero limit gives no finite page count
Pages(count, limit) == IF limit > 0 THEN (count + limit - 1) \div limit ELSE 0 - 1

\* the rows default reads see, in store order (ascending id)
LiveIds(d, e) == SelectSeq([i \in 1..Len(d[e]) |-> i], LAMBDA i : d[e][i].deletedAt = 0)

Reverse(seq) == [i \in 1..Len(seq) |-> seq[Len(seq) + 1 - i]]

\* query.order = sort: descending only for the direction "desc"
Ordered(ids, sort) == IF <<"id", "\"desc\"">> \in sort THEN Reverse(ids) ELSE ids

\* repository.findAndCount({ skip, take, order }): the page and the total of live
\* rows; a take of 0 either limits to no row or is not applied (unlimited is TRUE)
FindAndCount(d, e, skip, take, sort, rels, relIds, unlimited) ==
  LET ids == Ordered(LiveIds(d, e), sort)
      end == IF take = 0 /\ unlimited THEN Len(ids) ELSE skip + take
      last == IF end < Len(ids) THEN end ELSE Len(ids)
      page == SubSeq(ids, skip + 1, last)
  IN [rows |-> [i \in 1..Len(page) |-> Hydrate(d, e, page[i], rels, relIds)],
      count |-> Len(ids)]

(* GET / of every entity; q holds the query strings (Undef when absent) *)
List(s, e, q, fields, sort, unlimited, ok) ==
  /\ Begin(s)
  /\ LET p == Request("list", e, 0, [q |-> q, fields |-> fields, sort |-> sort], Undef)
         v == ValidateList(e, q, fields)
         page == IF q.page # Undef THEN ParseInt(q.page) ELSE 0
         limit == IF q.limit # Undef THEN ParseInt(q.limit) ELSE DefaultLimit
         rels == Joined(e, q)
         found == FindAndCount(db, e, page * limit, limit, sort, rels, rels = {}, unlimited)
         thrown == \/ ~ok
                   \/ fields = BadJson \/ sort = BadJson
                   \/ page * limit < 0 \/ limit < 0
                   \/ Keys(sort) \ FieldNames(e) # {}
     IN procs' = [procs EXCEPT ![s] =
          IF fields # BadJson /\ sort # BadJson /\ v # "ok" THEN Done(p, Error("E1007", v))
          ELSE IF thrown THEN Done(p, Error("E1001", "Error fetching data from resource"))
          ELSE Done(p, [status |-> "success",
                        rows |-> [i \in 1..Len(found.rows) |-> Project(found.rows[i], fields)],
                        count |-> found.count,
                        pages |-> Pages(found.count, limit)])]
  /\ UNCHANGED <<db, now, deletedOk, uploads, datastore>>

(* shared tail of POST /: try { ... save } catch { E1003 } *)
CreateSave(s, ok) ==
  /\ Running(s, "create", "save")
  /\ LET p == procs[s]
         d == SaveNew(db, p.ent, p.mem, now)
     IN IF ~ok
          THEN procs' = [procs EXCEPT ![s] = Done(p, Error("E1003", "Error creating resource"))]
               /\ Unwritten
          ELSE /\ procs' = [procs EXCEPT ![s] =
                    Done([p EXCEPT !.id = Len(d[p.ent])],
                         Success(Saved(d, p.ent, p.mem, Len(d[p.ent]))))]
               /\ Write(d)
  /\ UNCHANGED <<started, deletedOk, uploads, datastore>>

----------------------------------------------------------------------------
(* OsTemplate: POST / and PUT /:ostemplateId                               *)

\* a check that accepts any network of any location that was found
NetworkAllowedAny(location, net) == location # NullRel

\* location?.availableNetworks.includes(availableNetwork)
NetworkAllowed(location, net) ==
  location # NullRel /\ Includes(location.availableNetworks, net)

NoOsFamily == Error("E1007", "Provided osFamily doesn't exist")
NoLocation == Error("E1007", "Provided location doesn't exist")
NotInLocation == Error("E1007", "Provided availableNetwork is not part of location")

(* POST /: validation and the osFamily lookup *)
TplCreateOsFamily(s, b, user, ok) ==
  /\ Begin(s)
  /\ LET p == Request("create", "OsTemplate", 0, b, user)
         v == ValidateCreate("OsTemplate", b)
         osFamily == FindOneBy(db, "OsFamily", b.osFamily)
     IN procs' = [procs EXCEPT ![s] =
          IF v # "ok" THEN Done(p, Error("E1007", v))
          ELSE IF ~ok THEN Done(p, Error("E1003", "Error creating resource"))
          ELSE IF osFamily = NoRow THEN Done(p, NoOsFamily)
          ELSE [p EXCEPT !.pc = "location", !.mem = [osFamily |-> osFamily]]]
  /\ UNCHANGED <<db, now, deletedOk, uploads, datastore>>

(* POST /: the location lookup, the network check, new OsTemplate() *)
TplCreateLocation(s, ok) ==
  /\ Running(s, "create", "location")
  /\ LET p == procs[s]
         location == FindOneBy(db, "Location", p.b.location)
     IN procs' = [procs EXCEPT ![s] =
          IF ~ok THEN Done(p, Error("E1003", "Error creating resource"))
          ELSE IF location = NoRow THEN Done(p, NoLocation)
          ELSE IF ~NetworkAllowed(location, p.b.availableNetwork) THEN Done(p, NotInLocation)
          ELSE [p EXCEPT !.pc = "save",
                         !.mem = [name |-> p.b.name, templateId |-> p.b.templateId,
                                  osFamily |-> p.mem.osFamily, location |-> location,
                                  availableNetwork |-> p.b.availableNetwork,
                                  createdBy |-> p.user, updatedBy |-> p.user]]]
  /\ UNCHANGED <<db, now, started, deletedOk, uploads, datastore>>

\* a PUT that assigns availableNetwork without looking at the location
TplAfterLocationUnchecked(p) ==
  IF p.b.availableNetwork = Undef
    THEN [p EXCEPT !.pc = "save", !.mem.updatedBy = p.user]
    ELSE [p EXCEPT !.pc = "save", !.mem.availableNetwork = p.b.availableNetwork,
                   !.mem.updatedBy = p.user]

\* a PUT that checks the stored availableNetwork when the body carries none
TplAfterLocationRechecked(p) ==
  IF IsUndefined("availableNetwork", p.b.availableNetwork)
    THEN IF NetworkAllowed(p.mem.location, p.mem.availableNetwork)
           THEN [p EXCEPT !.pc = "save", !.mem.updatedBy = p.user]
           ELSE Done(p, NotInLocation)
  ELSE IF ~NetworkAllowed(p.mem.location, p.b.availableNetwork)
    THEN Done(p, NotInLocation)
  ELSE [p EXCEPT !.pc = "save", !.mem.availableNetwork = p.b.availableNetwork,
                 !.mem.updatedBy = p.user]

\* PUT: the availableNetwork block and updatedBy, up to the save call
TplAfterLocation(p) ==
  IF IsUndefined("availableNetwork", p.b.availableNetwork)
    THEN [p EXCEPT !.pc = "save", !.mem.updatedBy = p.user]
  ELSE IF ~NetworkAllowed(p.mem.location, p.b.availableNetwork)
    THEN Done(p, NotInLocation)
  ELSE [p EXCEPT !.pc = "save", !.mem.availableNetwork = p.b.availableNetwork,
                 !.mem.updatedBy = p.user]

TplAfterOsFamily(p) ==
  IF IsUndefined("location", p.b.location) THEN TplAfterLocation(p) ELSE At(p, "location")

TplAfterFetch(p) ==
  IF IsUndefined("osFamily", p.b.osFamily) THEN TplAfterOsFamily(p) ELSE At(p, "osFamily")

(* PUT /:ostemplateId: validation, fetch with the location joined, name and templateId *)
TplUpdateFetch(s, id, b, user, ok) ==
  /\ Begin(s)
  /\ LET p == Request("update", "OsTemplate", id, b, user)
         v == ValidateUpdate("OsTemplate", id, b)
         ostemplate == FindOne(db, "OsTemplate", id, {"location"}, FALSE)
     IN procs' = [procs EXCEPT ![s] =
          IF v # "ok" THEN Done(p, Error("E1007", v))
          ELSE IF ~ok THEN Done(p, Uncaught)
          ELSE IF ostemplate = NoRow THEN Done(p, E1006)
          ELSE TplAfterFetch([p EXCEPT !.mem = Assign(ostemplate, b, {"name", "templateId"})])]
  /\ UNCHANGED <<db, now, deletedOk, uploads, datastore>>

(* PUT /:ostemplateId: the osFamily lookup *)
TplUpdateOsFamily(s, ok) ==
  /\ Running(s, "update", "osFamily")
  /\ LET p == procs[s]
         osFamily == FindOneBy(db, "OsFamily", p.b.osFamily)
     IN procs' = [procs EXCEPT ![s] =
          IF ~ok THEN Done(p, Uncaught)
          ELSE IF osFamily = NoRow THEN Done(p, NoOsFamily)
          ELSE TplAfterOsFamily([p EXCEPT !.mem.osFamily = osFamily])]
  /\ UNCHANGED <<db, now, started, deletedOk, uploads, datastore>>

(* PUT /:ostemplateId: the location lookup, then the network check *)
TplUpdateLocation(s, ok) ==
  /\ Running(s, "update", "location")
  /\ LET p == procs[s]
         location == FindOneBy(db, "Location", p.b.location)
     IN procs' = [procs EXCEPT ![s] =
          IF ~ok THEN Done(p, Uncaught)
          ELSE IF location = NoRow THEN Done(p, NoLocation)
          ELSE TplAfterLocation([p EXCEPT !.mem.location = location])]
  /\ UNCHANGED <<db, now, started, deletedOk, uploads, datastore>>

----------------------------------------------------------------------------
(* Catalog: POST / and PUT /:catalogId                                     *)

NoDefaultTemplate == Error("E1007", "Provided defaultTemplate doesn't exist")
NoDefaultApprovalPolicy == Error("E1007", "Provided defaultApprovalPolicy doesn't exist")

(* POST /: validation and the defaultTemplate lookup *)
CatCreateTemplate(s, b, user, ok) ==
  /\ Begin(s)
  /\ LET p == Request("create", "Catalog", 0, b, user)
         v == ValidateCreate("Catalog", b)
         osTemplate == FindOneBy(db, "OsTemplate", b.defaultTemplate)
     IN procs' = [procs EXCEPT ![s] =
          IF v # "ok" THEN Done(p, Error("E1007", v))
          ELSE IF ~ok THEN Done(p, Error("E1003", "Error creating resource"))
          ELSE IF osTemplate = NoRow THEN Done(p, NoDefaultTemplate)
          ELSE [p EXCEPT !.pc = "defaultApprovalPolicy", !.mem = [defaultTemplate |-> osTemplate]]]
  /\ UNCHANGED <<db, now, deletedOk, uploads, datastore>>

(* POST /: the defaultApprovalPolicy lookup, new Catalog() *)
CatCreatePolicy(s, ok) ==
  /\ Running(s, "create", "defaultApprovalPolicy")
  /\ LET p == procs[s]
         approvalPolicy == FindOneBy(db, "ApprovalPolicy", p.b.defaultApprovalPolicy)
     IN procs' = [procs EXCEPT ![s] =
          IF ~ok THEN Done(p, Error("E1003", "Error creating resource"))
          ELSE IF approvalPolicy = NoRow THEN Done(p, NoDefaultApprovalPolicy)
          ELSE [p EXCEPT !.pc = "save",
                         !.mem = [name |-> p.b.name, icon |-> Undef, shortName |-> p.b.shortName,
                                  defaultTemplate |-> p.mem.defaultTemplate,
                                  defaultApprovalPolicy |-> approvalPolicy,
                                  defaultLeasePeriod |-> p.b.defaultLeasePeriod,
                                  permittedMaxLeaseExtensions |-> p.b.permittedMaxLeaseExtensions,
                                  type |-> p.b.type,
                                  createdBy |-> p.user, updatedBy |-> p.user]]]
  /\ UNCHANGED <<db, now, started, deletedOk, uploads, datastore>>

\* a PUT that stamps the acting principal as the creator too
CatAfterPolicyAsCreator(p) ==
  [p EXCEPT !.pc = "save",
            !.mem = [Assign(p.mem, p.b, {"defaultLeasePeriod", "permittedMaxLeaseExtensions", "type"})
                       EXCEPT !.updatedBy = p.user, !.createdBy = p.user]]

\* PUT: defaultLeasePeriod, permittedMaxLeaseExtensions, type, updatedBy, up to the save call
CatAfterPolicy(p) ==
  [p EXCEPT !.pc = "save",
            !.mem = [Assign(p.mem, p.b, {"defaultLeasePeriod", "permittedMaxLeaseExtensions", "type"})
                       EXCEPT !.updatedBy = p.user]]

CatAfterTemplate(p) ==
  IF IsUndefined("defaultApprovalPolicy", p.b.defaultApprovalPolicy)
    THEN CatAfterPolicy(p) ELSE At(p, "defaultApprovalPolicy")

CatAfterFetch(p) ==
  IF IsUndefined("defaultTemplate", p.b.defaultTemplate)
    THEN CatAfterTemplate(p) ELSE At(p, "defaultTemplate")

(* PUT /:catalogId: validation, fetch, name and shortName *)
CatUpdateFetch(s, id, b, user, ok) ==
  /\ Begin(s)
  /\ LET p == Request("update", "Catalog", id, b, user)
         v == ValidateUpdate("Catalog", id, b)
         catalog == FindOneBy(db, "Catalog", id)
     IN procs' = [procs EXCEPT ![s] =
          IF v # "ok" THEN Done(p, Error("E1007", v))
          ELSE IF ~ok THEN Done(p, Uncaught)
          ELSE IF catalog = NoRow THEN Done(p, E1006)
          ELSE CatAfterFetch([p EXCEPT !.mem = Assign(catalog, b, {"name", "shortName"})])]
  /\ UNCHANGED <<db, now, deletedOk, uploads, datastore>>

(* PUT /:catalogId: the defaultTemplate lookup *)
CatUpdateTemplate(s, ok) ==
  /\ Running(s, "update", "defaultTemplate")
  /\ LET p == procs[s]
         osTemplate == FindOneBy(db, "OsTemplate", p.b.defaultTemplate)
     IN procs' = [procs EXCEPT ![s] =
          IF ~ok THEN Done(p, Uncaught)
          ELSE IF osTemplate = NoRow THEN Done(p, NoDefaultTemplate)
          ELSE CatAfterTemplate([p EXCEPT !.mem.defaultTemplate = osTemplate])]
  /\ UNCHANGED <<db, now, started, deletedOk, uploads, datastore>>

(* PUT /:catalogId: the defaultApprovalPolicy lookup *)
CatUpdatePolicy(s, ok) ==
  /\ Running(s, "update", "defaultApprovalPolicy")
  /\ LET p == procs[s]
         approvalPolicy == FindOneBy(db, "ApprovalPolicy", p.b.defaultApprovalPolicy)
     IN procs' = [procs EXCEPT ![s] =
          IF ~ok THEN Done(p, Uncaught)
          ELSE IF approvalPolicy = NoRow THEN Done(p, NoDefaultApprovalPolicy)
          ELSE CatAfterPolicy([p EXCEPT !.mem.defaultApprovalPolicy = approvalPolicy])]
  /\ UNCHANGED <<db, now, started, deletedOk, uploads, datastore>>

----------------------------------------------------------------------------
(* Catalog: POST /upload/:catalogId and the removal of replaced files      *)

E1008 == Error("E1008", "Error uploading files to resource with provided identifier")

\* fileFilter: the mime types accepted for the field icon
AcceptedMime == {"image/png", "image/jpeg"}

\* the path diskStorage gives the n-th uploaded file (random name, never reused)
StoredPath(n) ==
  CASE n = 1 -> "catalogs/f1"
    [] n = 2 -> "catalogs/f2"
    [] n = 3 -> "catalogs/f3"
    [] OTHER -> "catalogs/f4"

\* if (currentValue): null and the empty string are falsy
Truthy(v) == v \notin {Null, Undef, ""}

(* POST /upload/:catalogId: multer stores an accepted file before the handler runs;
   then validation, the fetch (inside the try block) and the icon assignment.
   `file` is the mime type of the part named icon, Undef when there is none. *)
UploadFetch(s, id, file, ok) ==
  /\ Begin(s)
  /\ LET taken == file \in AcceptedMime
         icon == StoredPath(started + 1)
         p == Request("upload", "Catalog", id, [icon |-> file], Undef)
         catalog == FindOneBy(db, "Catalog", id)
     IN /\ uploads' = IF taken THEN [uploads EXCEPT !.stored = @ \cup {icon}] ELSE uploads
        /\ procs' = [procs EXCEPT ![s] =
             IF id = NaN THEN Done(p, Error("E1007", "Please provide a valid number for catalogId"))
             ELSE IF ~ok THEN Done(p, E1008)
             ELSE IF catalog = NoRow THEN Done(p, E1006)
             ELSE IF ~taken THEN [p EXCEPT !.pc = "save", !.mem = catalog]
             ELSE [p EXCEPT !.pc = "save",
                            !.mem = [catalog EXCEPT !.icon = icon],
                            !.toCleanUp = IF Truthy(catalog.icon) THEN {catalog.icon} ELSE {}]]
  /\ UNCHANGED <<db, now, deletedOk, datastore>>

\* the accepted and rejected maps of the upload response
Accepted(p) == IF p.b.icon \in AcceptedMime THEN {<<"icon", p.mem.icon>>} ELSE {}
Rejected(p) ==
  IF p.b.icon \notin AcceptedMime \cup {Undef}
    THEN {<<"icon", "Unsupported file format, please upload a valid file">>} ELSE {}

\* an upload that hands the replaced files to cleanUp before it saves
UploadCleanUpThenSave(s, ok) ==
  /\ Running(s, "upload", "save")
  /\ LET p == procs[s] IN
     /\ uploads' = [uploads EXCEPT !.cleanUp = @ \cup p.toCleanUp]
     /\ IF ~ok
          THEN procs' = [procs EXCEPT ![s] = Done(p, E1008)] /\ Unwritten
          ELSE /\ procs' = [procs EXCEPT ![s] =
                    Done(p, [status |-> "success", accepted |-> Accepted(p),
                             rejected |-> Rejected(p)])]
               /\ Write(SaveExisting(db, "Catalog", p.mem, now))
  /\ UNCHANGED <<started, deletedOk, datastore>>

(* POST /upload/:catalogId: await save(catalog); upload.cleanUp(toCleanUp); the
   response; a save that throws is answered E1008 by the catch block *)
UploadSave(s, ok) ==
  /\ Running(s, "upload", "save")
  /\ LET p == procs[s] IN
     IF ~ok
       THEN /\ procs' = [procs EXCEPT ![s] = Done(p, E1008)]
            /\ Unwritten
            /\ UNCHANGED uploads
       ELSE /\ procs' = [procs EXCEPT ![s] =
                 Done(p, [status |-> "success", accepted |-> Accepted(p),
                          rejected |-> Rejected(p)])]
            /\ Write(SaveExisting(db, "Catalog", p.mem, now))
            /\ uploads' = [uploads EXCEPT !.cleanUp = @ \cup p.toCleanUp]
  /\ UNCHANGED <<started, deletedOk, datastore>>

(* cleanUp: for one file handed over, fs.stat then fs.remove; the stat of a file
   that is already gone rejects and nothing is removed *)
CleanUp(file) ==
  /\ file \in uploads.cleanUp
  /\ uploads' = [stored |-> uploads.stored \ {file}, cleanUp |-> uploads.cleanUp \ {file}]
  /\ UNCHANGED <<db, procs, now, started, deletedOk, datastore>>

----------------------------------------------------------------------------
(* The initial store: one row per table, as left by earlier successful     *)
(* creates (two locations with disjoint networks).                         *)

Audit(id) ==
  [id |-> id, createdBy |-> Null, updatedBy |-> Null, deletedBy |-> Null,
   createdAt |-> 1, updatedAt |-> 1, deletedAt |-> 0]

Row(id, attrs) == [f \in DOMAIN Audit(id) \cup DOMAIN attrs |->
                     IF f \in DOMAIN attrs THEN attrs[f] ELSE Audit(id)[f]]

InitDb ==
  [Size |-> <<Row(1, [name |-> "Small", cpus |-> 2, ram |-> 1024, storage |-> 10])>>,
   OsFamily |-> <<Row(1, [name |-> "Linux", shortName |-> "lnx"])>>,
   Location |-> <<Row(1, [name |-> "dc1", availableNetworks |-> <<"n1">>]),
                  Row(2, [name |-> "dc2", availableNetworks |-> <<"n2">>])>>,
   ApprovalPolicy |-> <<Row(1, [name |-> "default", policies |-> <<>>])>>,
   OsTemplate |-> <<Row(1, [name |-> "Ubuntu", templateId |-> "t1", osFamily |-> 1,
                            location |-> 1, availableNetwork |-> "n1"])>>,
   Catalog |-> <<Row(1, [name |-> "VM", icon |-> Null, shortName |-> "vm",
                         defaultTemplate |-> 1, defaultApprovalPolicy |-> 1,
                         defaultLeasePeriod |-> 5, permittedMaxLeaseExtensions |-> 10,
                         type |-> "Standard"])>>]

Init ==
  /\ db = InitDb
  /\ procs = [s \in Slots |-> Idle]
  /\ now = 2
  /\ started = 0
  /\ deletedOk = {}
  /\ uploads = [stored |-> {}, cleanUp |-> {}]
  /\ datastore = "initialized"

----------------------------------------------------------------------------
(* Start-up: server.ts calls DB.init() without awaiting it and the server   *)
(* listens at once, so requests are handled while the data source is being  *)
(* initialised.                                                             *)

\* DB.init() up to its await: new DataSource(...) has returned ("created") or has
\* thrown into the catch block ("undefined")
InitBoot ==
  /\ db = InitDb
  /\ procs = [s \in Slots |-> Idle]
  /\ now = 2
  /\ started = 0
  /\ deletedOk = {}
  /\ uploads = [stored |-> {}, cleanUp |-> {}]
  /\ datastore \in {"undefined", "created"}

\* await datastore.initialize() resolves
Initialize ==
  /\ datastore = "created"
  /\ datastore' = "initialized"
  /\ UNCHANGED <<db, procs, now, started, deletedOk, uploads>>

\* await datastore.initialize() rejects: the catch block logs the error
InitializeFails ==
  /\ datastore = "created"
  /\ datastore' = "failed"
  /\ UNCHANGED <<db, procs, now, started, deletedOk, uploads>>

----------------------------------------------------------------------------
(* Request inputs.                                                         *)

\* req.user?.id: no middleware sets req.user, an authenticating one would
Users == {Undef, "u1"}

\* whether a store call returns (TRUE) or throws (FALSE); on a data source that is
\* not initialised (no metadata, no connection) every call throws
Outcomes == IF datastore = "initialized" THEN BOOLEAN ELSE {FALSE}

TplBody(n, t, f, l, a) ==
  [name |-> n, templateId |-> t, osFamily |-> f, location |-> l, availableNetwork |-> a]

TplCreateBodies ==
  {TplBody("Debian", "t2", f, l, "n2") : f \in {1, 2}, l \in {1, 2, 3}}
    \cup {TplBody("Debian", "t2", 1, 1, Undef)}

TplUpdateBodies ==
  {TplBody(nt[1], nt[2], 1, l, a) :
     nt \in {<<Undef, Undef>>, <<"Debian", "t2">>}, l \in {1, 2, 3}, a \in {Undef, "n2"}}
    \cup {TplBody("Debian", "t2", 2, 1, Undef), TplBody("Debian", "t2", UndefNum, UndefNum, "n1"),
          TplBody(Undef, Undef, UndefNum, UndefNum, "n2")}

LocUpdateBodies ==
  {[name |-> Undef, availableNetworks |-> n] : n \in {UndefSeq, <<"n2">>, <<"n1", "n2">>}}

CatBody(n, t, a, l, ty) ==
  [name |-> n, shortName |-> n, defaultTemplate |-> t, defaultApprovalPolicy |-> a,
   defaultLeasePeriod |-> l, permittedMaxLeaseExtensions |-> l, type |-> ty]

CatCreateBodies ==
  {CatBody("Lab", t, a, 7, "Custom") : t \in {1, 2}, a \in {1, 2}}
    \cup {CatBody("Lab", 1, 1, 7, Undef)}

CatUpdateBodies ==
  {CatBody(nl[1], t, a, nl[2], Undef) :
     nl \in {<<Undef, UndefNum>>, <<"Lab", 7>>}, t \in {UndefNum, 1, 2}, a \in {UndefNum, 1, 2}}

Query(page, limit, relations) == [page |-> page, limit |-> limit, relations |-> relations]

SizeBody(n, c) == [name |-> n, cpus |-> c, ram |-> c, storage |-> c]

SizeCreateBodies == {SizeBody("Large", 4), SizeBody("Large", UndefNum)}
SizeUpdateBodies == {SizeBody(Undef, UndefNum), SizeBody("Large", UndefNum), SizeBody(Undef, 4)}

\* GET /: the query strings of page and limit, then one header at a time
ListRequests ==
  {[q |-> Query(pg, lm, Undef), fields |-> NoHeader, sort |-> NoHeader] :
     pg \in {Undef, "0", "1", "2", "abc"}, lm \in {Undef, "0", "1", "2", "-2", "1.5", "abc"}}
  \cup {[q |-> Query(Undef, Undef, r), fields |-> NoHeader, sort |-> NoHeader] :
          r \in {"true", "false", "yes"}}
  \cup {[q |-> Query(Undef, Undef, Undef), fields |-> f, sort |-> NoHeader] :
          f \in {BadJson, {<<"id", "true">>}, {<<"name", "true">>}, {<<"name", "false">>},
                 {<<"name", "\"true\"">>}, {<<"bogus", "true">>}}}
  \cup {[q |-> Query(Undef, Undef, Undef), fields |-> NoHeader, sort |-> o] :
          o \in {BadJson, {<<"id", "\"desc\"">>}, {<<"id", "\"up\"">>}, {<<"id", "true">>},
                 {<<"bogus", "\"asc\"">>}}}

\* GET /:id: the relations flag and the fields header
GetRequests ==
  {[q |-> Query(Undef, Undef, r), fields |-> NoHeader] : r \in {Undef, "true", "false", "yes"}}
  \cup {[q |-> Query(Undef, Undef, Undef), fields |-> f] :
          f \in {BadJson, {<<"id", "true">>}, {<<"name", "true">>}, {<<"name", "false">>},
                 {<<"bogus", "true">>}}}

\* PUT bodies of two requests that both carry a name
SizeRaceBodies == {SizeBody("Large", 4), SizeBody("Huge", UndefNum)}
FamilyRaceBodies == {[name |-> n, shortName |-> Undef] : n \in {"BSD", "Unix"}}

\* POST /catalog/upload/:catalogId: no part, a PNG, a part of another type
UploadFiles == {Undef, "image/png", "text/plain"}

StoredPaths == {StoredPath(n) : n \in 1..MaxRequests}

\* PUT /catalog/:catalogId bodies that carry a name or nothing
CatRenameBodies == {CatBody(n, UndefNum, UndefNum, UndefNum, Undef) : n \in {Undef, "Lab"}}

----------------------------------------------------------------------------
(* Specifications.                                                         *)

\* the OsTemplate write paths against Location and OsFamily changes
NextTemplate ==
  \/ \E s \in Slots, b \in TplCreateBodies, ok \in Outcomes : TplCreateOsFamily(s, b, Undef, ok)
  \/ \E s \in Slots, ok \in Outcomes : TplCreateLocation(s, ok)
  \/ \E s \in Slots, ok \in Outcomes : CreateSave(s, ok)
  \/ \E s \in Slots, id \in {1, 2, NaN}, b \in TplUpdateBodies, ok \in Outcomes :
       TplUpdateFetch(s, id, b, Undef, ok)
  \/ \E s \in Slots, ok \in Outcomes : TplUpdateOsFamily(s, ok)
  \/ \E s \in Slots, ok \in Outcomes : TplUpdateLocation(s, ok)
  \/ \E s \in Slots, id \in {1, 2}, b \in LocUpdateBodies, ok \in Outcomes :
       UpdateFetch(s, "Location", id, b, Undef, ok)
  \/ \E s \in Slots, ok \in Outcomes : UpdateSave(s, ok)
  \/ \E s \in Slots, e \in {"OsFamily", "Location", "OsTemplate"}, id \in {1, 2}, ok \in Outcomes :
       DeleteFetch(s, e, id, Undef, ok)
  \/ \E s \in Slots, ok \in Outcomes : DeleteSave(s, ok)
  \/ \E s \in Slots, ok \in Outcomes : DeleteSoftDelete(s, ok)

SpecTemplate == Init /\ [][NextTemplate]_vars

\* the Catalog write paths against OsTemplate deletes
NextCatalog ==
  \/ \E s \in Slots, b \in CatCreateBodies, ok \in Outcomes : CatCreateTemplate(s, b, Undef, ok)
  \/ \E s \in Slots, ok \in Outcomes : CatCreatePolicy(s, ok)
  \/ \E s \in Slots, ok \in Outcomes : CreateSave(s, ok)
  \/ \E s \in Slots, id \in {1, 2, NaN}, b \in CatUpdateBodies, ok \in Outcomes :
       CatUpdateFetch(s, id, b, Undef, ok)
  \/ \E s \in Slots, ok \in Outcomes : CatUpdateTemplate(s, ok)
  \/ \E s \in Slots, ok \in Outcomes : CatUpdatePolicy(s, ok)
  \/ \E s \in Slots, ok \in Outcomes : UpdateSave(s, ok)
  \/ \E s \in Slots, e \in {"OsTemplate", "Catalog"}, id \in {1, 2}, ok \in Outcomes :
       DeleteFetch(s, e, id, Undef, ok)
  \/ \E s \in Slots, ok \in Outcomes : DeleteSave(s, ok)
  \/ \E s \in Slots, ok \in Outcomes : DeleteSoftDelete(s, ok)

SpecCatalog == Init /\ [][NextCatalog]_vars

\* create, read, update and delete of one plain entity (size) by any principal
NextSize ==
  \/ \E s \in Slots, b \in SizeCreateBodies, u \in Users, ok \in Outcomes :
       Create(s, "Size", b, u, ok)
  \/ \E s \in Slots, id \in {1, 2, NaN}, b \in SizeUpdateBodies, u \in Users, ok \in Outcomes :
       UpdateFetch(s, "Size", id, b, u, ok)
  \/ \E s \in Slots, ok \in Outcomes : UpdateSave(s, ok)
  \/ \E s \in Slots, id \in {1, 2, NaN}, u \in Users, ok \in Outcomes :
       DeleteFetch(s, "Size", id, u, ok)
  \/ \E s \in Slots, ok \in Outcomes : DeleteSave(s, ok)
  \/ \E s \in Slots, ok \in Outcomes : DeleteSoftDelete(s, ok)
  \/ \E s \in Slots, id \in {1, 2, NaN}, ok \in Outcomes :
       GetById(s, "Size", id, Query(Undef, Undef, Undef), NoHeader, ok)
  \/ \E s \in Slots, page \in {Undef, "1"}, limit \in {Undef, "1"}, ok \in Outcomes :
       List(s, "Size", Query(page, limit, Undef), NoHeader, NoHeader, FALSE, ok)

SpecSize == Init /\ [][NextSize]_vars

\* the read paths (GET / and GET /:id) after creates, with a referenced row deleted
NextRead ==
  \/ \E s \in Slots, ok \in Outcomes : Create(s, "Size", SizeBody("Large", 4), Undef, ok)
  \/ \E s \in Slots, ok \in Outcomes :
       TplCreateOsFamily(s, TplBody("Debian", "t2", 1, 2, "n2"), Undef, ok)
  \/ \E s \in Slots, ok \in Outcomes : TplCreateLocation(s, ok)
  \/ \E s \in Slots, ok \in Outcomes : CreateSave(s, ok)
  \/ \E s \in Slots, ok \in Outcomes : DeleteFetch(s, "OsFamily", 1, Undef, ok)
  \/ \E s \in Slots, ok \in Outcomes : DeleteSave(s, ok)
  \/ \E s \in Slots, ok \in Outcomes : DeleteSoftDelete(s, ok)
  \/ \E s \in Slots, e \in {"Size", "OsTemplate", "Catalog"}, id \in {1, 2, NaN},
        r \in GetRequests, ok \in Outcomes :
       GetById(s, e, id, r.q, r.fields, ok)
  \/ \E s \in Slots, e \in {"Size", "Catalog"}, r \in ListRequests,
        unlimited \in BOOLEAN, ok \in Outcomes :
       List(s, e, r.q, r.fields, r.sort, unlimited, ok)

SpecRead == Init /\ [][NextRead]_vars

\* the icon upload of a catalog against updates and deletes of the same catalog
NextUpload ==
  \/ \E s \in Slots, u \in Users, ok \in Outcomes :
       CatCreateTemplate(s, CatBody("Lab", 1, 1, 7, "Custom"), u, ok)
  \/ \E s \in Slots, ok \in Outcomes : CatCreatePolicy(s, ok)
  \/ \E s \in Slots, ok \in Outcomes : CreateSave(s, ok)
  \/ \E s \in Slots, id \in {1, 2, NaN}, file \in UploadFiles, ok \in Outcomes :
       UploadFetch(s, id, file, ok)
  \/ \E s \in Slots, ok \in Outcomes : UploadSave(s, ok)
  \/ \E file \in StoredPaths : CleanUp(file)
  \/ \E s \in Slots, id \in {1, 2}, b \in CatRenameBodies, u \in Users, ok \in Outcomes :
       CatUpdateFetch(s, id, b, u, ok)
  \/ \E s \in Slots, ok \in Outcomes : UpdateSave(s, ok)
  \/ \E s \in Slots, id \in {1, 2}, u \in Users, ok \in Outcomes :
       DeleteFetch(s, "Catalog", id, u, ok)
  \/ \E s \in Slots, ok \in Outcomes : DeleteSave(s, ok)
  \/ \E s \in Slots, ok \in Outcomes : DeleteSoftDelete(s, ok)

SpecUpload == Init /\ [][NextUpload]_vars

\* requests racing on one row while the store answers every call
NextRace ==
  \/ \E s \in Slots, b \in SizeRaceBodies, u \in Users : UpdateFetch(s, "Size", 1, b, u, TRUE)
  \/ \E s \in Slots, b \in FamilyRaceBodies : UpdateFetch(s, "OsFamily", 1, b, Undef, TRUE)
  \/ \E s \in Slots : UpdateSave(s, TRUE)
  \/ \E s \in Slots, e \in {"Size", "OsTemplate"}, u \in Users : DeleteFetch(s, e, 1, u, TRUE)
  \/ \E s \in Slots : DeleteSave(s, TRUE)
  \/ \E s \in Slots : DeleteSoftDelete(s, TRUE)

SpecRace == Init /\ [][NextRace]_vars

\* the osfamily routes and the catalog upload from the moment the server listens
NextBoot ==
  \/ Initialize
  \/ InitializeFails
  \/ \E s \in Slots, ok \in Outcomes :
       Create(s, "OsFamily", [name |-> "BSD", shortName |-> "bsd"], Undef, ok)
  \/ \E s \in Slots, id \in {1, NaN}, b \in FamilyRaceBodies, ok \in Outcomes :
       UpdateFetch(s, "OsFamily", id, b, Undef, ok)
  \/ \E s \in Slots, ok \in Outcomes : UpdateSave(s, ok)
  \/ \E s \in Slots, id \in {1, NaN}, ok \in Outcomes : DeleteFetch(s, "OsFamily", id, Undef, ok)
  \/ \E s \in Slots, ok \in Outcomes : DeleteSave(s, ok)
  \/ \E s \in Slots, ok \in Outcomes : DeleteSoftDelete(s, ok)
  \/ \E s \in Slots, id \in {1, NaN}, ok \in Outcomes :
       GetById(s, "OsFamily", id, Query(Undef, Undef, Undef), NoHeader, ok)
  \/ \E s \in Slots, ok \in Outcomes :
       List(s, "OsFamily", Query(Undef, Undef, Undef), NoHeader, NoHeader, FALSE, ok)
  \/ \E s \in Slots, file \in UploadFiles, ok \in Outcomes : UploadFetch(s, 1, file, ok)
  \/ \E s \in Slots, ok \in Outcomes : UploadSave(s, ok)

SpecBoot == InitBoot /\ [][NextBoot]_vars

Next ==
  NextTemplate \/ NextCatalog \/ NextSize \/ NextRead \/ NextUpload \/ NextRace \/ NextBoot

Spec == Init /\ [][Next]_vars

----------------------------------------------------------------------------
(* Properties.                                                             *)

\* slot s takes this step
Steps(s) == procs'[s] # procs[s]

\* slot s accepts a request in this step
Accepts(s) == Steps(s) /\ procs[s].pc \in {"idle", "done"}

\* row id of entity e is stored and not soft-deleted
Present(d, e, id) == id \in 1..Len(d[e]) /\ d[e][id].deletedAt = 0

E1007(message) == [status |-> "error", code |-> "E1007", error |-> message]

\* body b carries a value for each of the text attributes and the numeric attributes
Supplied(b, text, numbers) ==
  /\ \A f \in text : b[f] # "undefined"
  /\ \A f \in numbers : b[f] # 0 - 1

\* slot s runs handler op of entity e
Handles(s, op, e) == procs[s].op = op /\ procs[s].ent = e

\* what a Get-by-id and a List of entity e would answer in store d
Visible(d, e, id) ==
  \/ FindOneBy(d, e, id) # NoRow
  \/ Includes(LiveIds(d, e), id)

(* C8: after a Delete of id X answered success, Get-by-id of X answers E1006 and
   List leaves X out, the row staying in the store with deletedAt set. *)
C8_DeletedStaysHidden ==
  \A x \in deletedOk :
    /\ Exists(db, x[1], x[2])
    /\ db[x[1]][x[2]].deletedAt # 0
    /\ ~Visible(db, x[1], x[2])

(* C9: a Delete of an id whose earlier Delete answered success, when its fetch
   does not throw, answers E1006 and writes nothing. *)
C9_SecondDeleteNotFound ==
  [][\A s \in Slots :
       (/\ Accepts(s)
        /\ procs'[s].op = "delete"
        /\ <<procs'[s].ent, procs'[s].id>> \in deletedOk
        /\ Code(procs'[s].resp) # "E1005")
       => (procs'[s].resp = E1006 /\ db' = db)]_vars

(* C10: in a Delete handler the save that carries deletedBy and the soft delete that
   sets deletedAt are two store steps in that order; the handler answers success
   exactly when the soft delete affected a row and, unless a store call threw
   (E1005), E1006 exactly when the fetch found no row or the soft delete affected
   none. *)
C10_DeleteSteps ==
  [][\A s \in Slots :
       LET p == procs[s]
           q == procs'[s]
           old == db[q.ent][q.id]
           new == db'[q.ent][q.id]
       IN (Steps(s) /\ q.op = "delete") =>
            /\ (Exists(db, q.ent, q.id) /\ new.deletedAt \notin {0, old.deletedAt})
                 => (p.pc = "softDelete" /\ new.deletedBy = old.deletedBy)
            /\ (Exists(db, q.ent, q.id) /\ new.deletedBy # old.deletedBy)
                 => (p.pc = "save" /\ new.deletedBy = q.user /\ q.pc = "softDelete")
            /\ q.pc = "softDelete" => p.pc = "save"
            /\ q.pc = "done" =>
                 /\ q.resp.status = "success" <=> q.affected >= 1
                 /\ Code(q.resp) # "E1005" =>
                      (Code(q.resp) = "E1006" <=>
                         \/ Accepts(s) /\ q.id # NaN /\ ~Live(db, q.ent, q.id)
                         \/ q.affected = 0)]_vars

\* a Delete by a known principal answered success: deletedBy and deletedAt are both set
C10_Witness ==
  \E s \in Slots :
    /\ procs[s].op = "delete" /\ procs[s].pc = "done" /\ procs[s].resp.status = "success"
    /\ procs[s].user # Undef
    /\ db[procs[s].ent][procs[s].id].deletedBy = procs[s].user
    /\ db[procs[s].ent][procs[s].id].deletedAt # 0

----------------------------------------------------------------------------
(* OsTemplate and Catalog write paths.                                     *)

\* the step in which slot s persists a row of entity e and answers success
Persists(s, e) ==
  /\ Steps(s)
  /\ procs[s].pc = "save" /\ procs[s].ent = e /\ procs[s].op \in {"create", "update"}
  /\ procs'[s].resp.status = "success"

(* C1: the template row persisted by a successful OsTemplate create or update has
   its availableNetwork among the availableNetworks of the Location it references. *)
C1_PersistedNetworkInLocation ==
  [][\A s \in Slots :
       Persists(s, "OsTemplate") =>
         LET row == db'["OsTemplate"][procs'[s].id] IN
         /\ row.location \in 1..Len(db'["Location"])
         /\ Includes(db'["Location"][row.location].availableNetworks, row.availableNetwork)]_vars

(* C2: every OsTemplate that is not soft-deleted has its availableNetwork among the
   current availableNetworks of the Location it references. *)
C2_NetworkInLocation ==
  \A i \in 1..Len(db["OsTemplate"]) :
    LET row == db["OsTemplate"][i] IN
    row.deletedAt = 0 =>
      /\ row.location \in 1..Len(db["Location"])
      /\ Includes(db["Location"][row.location].availableNetworks, row.availableNetwork)

(* C3: an OsTemplate create whose osFamily or location has no row that is not
   soft-deleted answers E1007 with the message naming the field, unless the lookup
   itself throws, and no OsTemplate create that answers an error inserts a row. *)
C3_CreateRejectsMissingReference ==
  [][\A s \in Slots :
       LET p == procs[s]
           q == procs'[s]
       IN /\ (/\ Accepts(s) /\ q.op = "create" /\ q.ent = "OsTemplate"
              /\ Supplied(q.b, {"name", "templateId", "availableNetwork"},
                           {"osFamily", "location"})
              /\ Code(q.resp) # "E1003"
              /\ ~Present(db, "OsFamily", q.b.osFamily))
               => (q.pc = "done" /\ q.resp = E1007("Provided osFamily doesn't exist"))
          /\ (/\ Steps(s) /\ Handles(s, "create", "OsTemplate") /\ p.pc = "location"
              /\ Code(q.resp) # "E1003"
              /\ ~Present(db, "Location", p.b.location))
               => (q.pc = "done" /\ q.resp = E1007("Provided location doesn't exist"))
          /\ (Steps(s) /\ q.op = "create" /\ q.ent = "OsTemplate" /\ q.resp.status # "success")
               => db' = db]_vars

\* a create naming a soft-deleted osFamily, or a missing location, was answered E1007
C3_Witness ==
  /\ \E s \in Slots :
       /\ procs[s].op = "create" /\ procs[s].ent = "OsTemplate"
       /\ procs[s].resp = E1007("Provided osFamily doesn't exist")
       /\ procs[s].b.osFamily \in 1..Len(db["OsFamily"])
  /\ Len(db["OsTemplate"]) = 1

(* C4: an OsTemplate update naming an osFamily or location with no row that is not
   soft-deleted, or an availableNetwork outside the networks of the location it
   names, answers E1007 (unless the lookup throws), and no step of the handler
   before its save writes to the store: the stored template keeps every value. *)
C4_UpdateRejectsAtomically ==
  [][\A s \in Slots :
       LET p == procs[s]
           q == procs'[s]
       IN /\ (/\ Steps(s) /\ Handles(s, "update", "OsTemplate") /\ p.pc = "osFamily"
              /\ q.resp # Uncaught
              /\ ~Present(db, "OsFamily", p.b.osFamily))
               => (q.pc = "done" /\ q.resp = E1007("Provided osFamily doesn't exist"))
          /\ (/\ Steps(s) /\ Handles(s, "update", "OsTemplate") /\ p.pc = "location"
              /\ q.resp # Uncaught
              /\ ~Present(db, "Location", p.b.location))
               => (q.pc = "done" /\ q.resp = E1007("Provided location doesn't exist"))
          /\ (/\ Steps(s) /\ Handles(s, "update", "OsTemplate") /\ p.pc = "location"
              /\ q.resp # Uncaught
              /\ Present(db, "Location", p.b.location)
              /\ p.b.availableNetwork # Undef
              /\ ~Includes(db["Location"][p.b.location].availableNetworks, p.b.availableNetwork))
               => (q.pc = "done"
                   /\ q.resp = E1007("Provided availableNetwork is not part of location"))
          /\ (/\ Steps(s) /\ q.op = "update" /\ q.ent = "OsTemplate"
              /\ (p.pc # "save" \/ q.resp.status # "success"))
               => db' = db]_vars

\* an update carrying a new name was refused for its availableNetwork and the
\* stored row kept its name
C4_Witness ==
  \E s \in Slots :
    /\ procs[s].op = "update" /\ procs[s].ent = "OsTemplate"
    /\ procs[s].resp = E1007("Provided availableNetwork is not part of location")
    /\ procs[s].b.name = "Debian"
    /\ db["OsTemplate"][procs[s].id].name = "Ubuntu"
    /\ db["OsTemplate"][procs[s].id].updatedAt = 1

(* C5: an OsTemplate create whose osFamily and location were both found goes on to
   its save exactly when availableNetwork is an element of that Location's
   availableNetworks, and otherwise answers E1007 "Provided availableNetwork is not
   part of location" without inserting; the save, unless it throws, inserts the row
   and answers success. *)
C5_CreateNetworkMembership ==
  [][\A s \in Slots :
       LET p == procs[s]
           q == procs'[s]
           member == Includes(db["Location"][p.b.location].availableNetworks,
                              p.b.availableNetwork)
       IN /\ (/\ Steps(s) /\ Handles(s, "create", "OsTemplate") /\ p.pc = "location"
              /\ Code(q.resp) # "E1003"
              /\ Present(db, "Location", p.b.location))
               => /\ member => q.pc = "save"
                  /\ ~member =>
                       /\ q.pc = "done"
                       /\ q.resp = E1007("Provided availableNetwork is not part of location")
                       /\ db' = db
          /\ (/\ Steps(s) /\ Handles(s, "create", "OsTemplate") /\ p.pc = "save"
              /\ Code(q.resp) # "E1003")
               => /\ q.resp.status = "success"
                  /\ Len(db'["OsTemplate"]) = Len(db["OsTemplate"]) + 1
                  /\ db'["OsTemplate"][q.id].availableNetwork = p.b.availableNetwork
                  /\ db'["OsTemplate"][q.id].location = p.b.location]_vars

\* one create was accepted with a network of its location, another refused
C5_Witness ==
  /\ \E s \in Slots :
       /\ procs[s].op = "create" /\ procs[s].ent = "OsTemplate"
       /\ procs[s].resp.status = "success"
       /\ db["OsTemplate"][procs[s].id].availableNetwork = "n2"
  /\ \E s \in Slots :
       procs[s].resp = E1007("Provided availableNetwork is not part of location")

(* C6: a Catalog create or update naming a defaultTemplate or defaultApprovalPolicy
   with no row that is not soft-deleted answers E1007 with the message naming the
   field (unless the lookup throws) and writes nothing: no catalog is inserted and
   no step of the update before its save writes to the store. *)
C6_CatalogRejectsMissingReference ==
  [][\A s \in Slots :
       LET p == procs[s]
           q == procs'[s]
       IN /\ (/\ Accepts(s) /\ q.op = "create" /\ q.ent = "Catalog"
              /\ Supplied(q.b, {"name", "shortName", "type"},
                           {"defaultTemplate", "defaultApprovalPolicy",
                            "defaultLeasePeriod", "permittedMaxLeaseExtensions"})
              /\ Code(q.resp) # "E1003"
              /\ ~Present(db, "OsTemplate", q.b.defaultTemplate))
               => (q.pc = "done" /\ q.resp = E1007("Provided defaultTemplate doesn't exist"))
          /\ (/\ Steps(s) /\ Handles(s, "create", "Catalog") /\ p.pc = "defaultApprovalPolicy"
              /\ Code(q.resp) # "E1003"
              /\ ~Present(db, "ApprovalPolicy", p.b.defaultApprovalPolicy))
               => (q.pc = "done"
                   /\ q.resp = E1007("Provided defaultApprovalPolicy doesn't exist"))
          /\ (/\ Steps(s) /\ Handles(s, "update", "Catalog") /\ p.pc = "defaultTemplate"
              /\ q.resp # Uncaught
              /\ ~Present(db, "OsTemplate", p.b.defaultTemplate))
               => (q.pc = "done" /\ q.resp = E1007("Provided defaultTemplate doesn't exist"))
          /\ (/\ Steps(s) /\ Handles(s, "update", "Catalog") /\ p.pc = "defaultApprovalPolicy"
              /\ q.resp # Uncaught
              /\ ~Present(db, "ApprovalPolicy", p.b.defaultApprovalPolicy))
               => (q.pc = "done"
                   /\ q.resp = E1007("Provided defaultApprovalPolicy doesn't exist"))
          /\ (/\ Steps(s) /\ q.ent = "Catalog" /\ q.op \in {"create", "update"}
              /\ (p.pc # "save" \/ q.resp.status # "success"))
               => db' = db]_vars

\* an update carrying a new name was refused for a soft-deleted defaultTemplate and
\* the stored catalog kept its name
C6_Witness ==
  \E s \in Slots :
    /\ procs[s].op = "update" /\ procs[s].ent = "Catalog"
    /\ procs[s].resp = E1007("Provided defaultTemplate doesn't exist")
    /\ procs[s].b.name = "Lab"
    /\ procs[s].b.defaultTemplate \in 1..Len(db["OsTemplate"])
    /\ db["Catalog"][procs[s].id].name = "VM"

(* C7: when an OsTemplate or Catalog create or update persists its row, every row
   the persisted row references is not soft-deleted at that instant. *)
C7_ReferencesLiveAtPersist ==
  [][\A s \in Slots, e \in {"OsTemplate", "Catalog"} :
       Persists(s, e) =>
         \A f \in RelFields(e) :
           Present(db', RelTarget(f), db'[e][procs'[s].id][f])]_vars

----------------------------------------------------------------------------
(* Update: the frame of a save.                                            *)

\* the step in which the Update of slot s saves and answers success
UpdateSucceeds(s) ==
  /\ Steps(s)
  /\ procs[s].op = "update" /\ procs[s].pc = "save"
  /\ procs'[s].resp.status = "success"

\* every row but row id of entity e is the same in stores d1 and d2
OtherRowsSame(d1, d2, e, id) ==
  /\ \A e2 \in Entities \ {e} : d2[e2] = d1[e2]
  /\ Len(d2[e]) = Len(d1[e])
  /\ \A i \in 1..Len(d1[e]) : i # id => d2[e][i] = d1[e][i]

(* C11: the save of a successful Update sets each writable attribute the body
   carries to the body's value, leaves every writable attribute the body does not
   carry as it was stored just before the save, and changes no other row. *)
C11_UpdateWritesOnlyBody ==
  [][\A s \in Slots :
       UpdateSucceeds(s) =>
         LET p == procs[s]
             old == db[p.ent][p.id]
             new == db'[p.ent][p.id]
         IN /\ OtherRowsSame(db, db', p.ent, p.id)
            /\ \A f \in Writable(p.ent) \ RelFields(p.ent) :
                 new[f] = IF IsUndefined(f, p.b[f]) THEN old[f] ELSE p.b[f]]_vars

\* body b carries no attribute
EmptyBody(e, b) == \A f \in Writable(e) : IsUndefined(f, b[f])

(* C12: an Update with an empty body of a row that is stored and not soft-deleted
   is not refused by validation, and when it answers success its save has left
   every writable attribute as it was and has set updatedAt to a later time and
   updatedBy to the acting principal. *)
C12_EmptyUpdateTouchesAudit ==
  [][\A s \in Slots :
       LET p == procs[s]
           q == procs'[s]
       IN /\ (/\ Accepts(s) /\ q.op = "update" /\ EmptyBody(q.ent, q.b)
              /\ Present(db, q.ent, q.id))
               => Code(q.resp) # "E1007"
          /\ (UpdateSucceeds(s) /\ EmptyBody(p.ent, p.b))
               => LET old == db[p.ent][p.id]
                      new == db'[p.ent][p.id]
                  IN /\ \A f \in Writable(p.ent) : new[f] = old[f]
                     /\ new.updatedAt > old.updatedAt
                     /\ p.user # Undef => new.updatedBy = p.user]_vars

----------------------------------------------------------------------------
(* The read paths.                                                         *)

(* C13: a Get-by-id of the id a successful Create returned, with no write to the
   store since that Create, answers success (unless the store call throws) with
   every plain writable attribute equal to the payload's; each reference attribute
   is the payload's id without relations=true and the referenced object with it,
   and the Create response carries the referenced objects. *)
C13_CreateGetRoundTrip ==
  [][\A s, c \in Slots :
       LET q == procs'[s]
           cr == procs[c]
       IN (/\ Accepts(s) /\ q.op = "get"
           /\ cr.op = "create" /\ cr.pc = "done" /\ cr.resp.status = "success"
           /\ cr.ent = q.ent /\ cr.id = q.id
           /\ now = db[q.ent][q.id].createdAt + 1
           /\ q.b.fields = {} /\ q.b.q.relations \in {"undefined", "true", "false"}
           /\ Code(q.resp) # "E1002")
          => /\ q.resp.status = "success"
             /\ \A f \in Writable(q.ent) \ RelFields(q.ent) : q.resp.payload[f] = cr.b[f]
             /\ \A f \in RelFields(q.ent) :
                  /\ cr.resp.payload[f].id = cr.b[f]
                  /\ IF q.b.q.relations = "true"
                       THEN /\ q.resp.payload[f] # NullRel
                            /\ q.resp.payload[f].id = cr.b[f]
                       ELSE q.resp.payload[f] = cr.b[f]]_vars

\* the page and limit the interface describes for query strings pg and lm: a
\* non-negative integer page, else 0; a positive integer limit, else 50
EffectivePage(pg) == IF pg \in {"0", "1", "2"} THEN ParseInt(pg) ELSE 0
EffectiveLimit(lm) == IF lm \in {"1", "2"} THEN ParseInt(lm) ELSE 50

\* the ids of the rows of entity e that are not soft-deleted, ascending
Listed(d, e) == SelectSeq([i \in 1..Len(d[e]) |-> i], LAMBDA i : d[e][i].deletedAt = 0)

\* the step in which slot s accepts a List that validation lets through and that
\* is not answered with the store's generic failure
Lists(s) ==
  /\ Accepts(s) /\ procs'[s].op = "list"
  /\ Code(procs'[s].resp) \notin {"E1007", "E1001"}

(* C14: a List that passes validation answers, for count rows that are not
   soft-deleted and effective limit L, count itself, pages = ceil(count / L) as a
   non-negative integer, and at most L rows, those from offset page * L on (none
   when page * L >= count). *)
C14_Pagination ==
  [][\A s \in Slots :
       Lists(s) =>
         LET q == procs'[s]
             ids == Listed(db, q.ent)
             count == Len(ids)
             L == EffectiveLimit(q.b.q.limit)
             skip == EffectivePage(q.b.q.page) * L
         IN /\ q.resp.status = "success"
            /\ q.resp.count = count
            /\ q.resp.pages = (count + L - 1) \div L
            /\ q.resp.pages >= 0
            /\ Len(q.resp.rows) <= L
            /\ skip >= count => q.resp.rows = <<>>
            /\ (skip < count /\ q.b.sort = {} /\ q.b.fields = {}) =>
                 /\ Len(q.resp.rows) = (IF skip + L < count THEN L ELSE count - skip)
                 /\ \A i \in 1..Len(q.resp.rows) : q.resp.rows[i].id = ids[skip + i]]_vars

(* C15: a List without headers and relations flag is never refused for its page
   or limit query string, whatever it is: unless the store fails, it answers
   success with the page of the effective page (an integer >= 0, 0 when the string
   is absent or unparsable) and effective limit (an integer >= 1, 50 when the
   string is absent, unparsable or not a positive integer). *)
C15_PageLimitNormalised ==
  [][\A s \in Slots :
       LET q == procs'[s] IN
       (/\ Accepts(s) /\ q.op = "list"
        /\ q.b.fields = {} /\ q.b.sort = {} /\ q.b.q.relations = "undefined"
        /\ Code(q.resp) # "E1001")
       => LET count == Len(Listed(db, q.ent))
              L == EffectiveLimit(q.b.q.limit)
              skip == EffectivePage(q.b.q.page) * L
          IN /\ Code(q.resp) # "E1007"
             /\ q.resp.status = "success"
             /\ Len(q.resp.rows) = (IF skip >= count THEN 0
                                    ELSE IF skip + L < count THEN L ELSE count - skip)]_vars

(* C16: a List whose X-API-Sort object names an attribute the entity does not have,
   or gives a value other than "asc" or "desc", is answered E1007. *)
C16_BadSortRejected ==
  [][\A s \in Slots :
       LET q == procs'[s] IN
       (/\ Accepts(s) /\ q.op = "list"
        /\ q.b.sort # BadJson
        /\ \E kv \in q.b.sort :
             kv[1] \notin FieldNames(q.ent) \/ kv[2] \notin {"\"asc\"", "\"desc\""})
       => Code(q.resp) = "E1007"]_vars

\* the attribute names the interface documents for the X-API-Fields of entity e
Documented(e) ==
  {"id", "createdBy", "updatedBy", "createdAt", "updatedAt"} \cup Writable(e)
    \cup (IF e = "Catalog" THEN {"icon"} ELSE {})

(* C17: a List or Get-by-id whose query and id are valid is answered E1007 for its
   X-API-Fields object exactly when the object has a key that is not a documented
   attribute name of the entity or a value that is not the literal true; {"id":
   true} is accepted on every entity. *)
C17_FieldsAccepted ==
  [][\A s \in Slots :
       LET q == procs'[s] IN
       (/\ Accepts(s) /\ q.op \in {"list", "get"}
        /\ q.id # NaN
        /\ q.b.fields # BadJson
        /\ q.b.q = [page |-> "undefined", limit |-> "undefined", relations |-> "undefined"])
       => (Code(q.resp) = "E1007"
             <=> \E kv \in q.b.fields : kv[1] \notin Documented(q.ent) \/ kv[2] # "true")]_vars

----------------------------------------------------------------------------
(* Update validation and the error envelope.                               *)

(* C18: an Update with a numeric id is never refused by validation for an
   attribute its body leaves out: whatever subset of the writable attributes the
   body carries, the step that accepts the request does not answer E1007. *)
C18_UpdateAttributesOptional ==
  [][\A s \in Slots :
       (Accepts(s) /\ procs'[s].op = "update" /\ procs'[s].id # NaN)
         => Code(procs'[s].resp) # "E1007"]_vars

(* C19: every response with status "error" carries its error code under the key
   code and its message under the key error. *)
C19_ErrorEnvelope ==
  \A s \in Slots :
    procs[s].resp.status = "error" => {"code", "error"} \subseteq DOMAIN procs[s].resp

(* C20: every handler that has returned has sent a response envelope (status
   success or error): no exception of a store call or of the header parsing leaves
   the handler without one. *)
C20_AlwaysAnswered ==
  \A s \in Slots :
    procs[s].pc = "done" => procs[s].resp.status \in {"success", "error"}

----------------------------------------------------------------------------
(* The catalog icon upload.                                                *)

(* C21: a file is handed to cleanUp only in the step in which an upload's save of
   the catalog row succeeds, the row then carrying the new icon path and the file
   being the icon the handler fetched; an upload whose save throws answers E1008,
   writes nothing and hands over no file; an upload without an accepted file never
   hands over a file. *)
C21_CleanUpAfterSave ==
  [][/\ (uploads'.cleanUp \ uploads.cleanUp # {}) =>
          \E s \in Slots :
            /\ Steps(s) /\ procs[s].op = "upload" /\ procs[s].pc = "save"
            /\ procs'[s].resp.status = "success"
            /\ db'["Catalog"][procs[s].id].icon = procs[s].mem.icon
            /\ procs[s].mem.icon \in uploads.stored
            /\ uploads'.cleanUp \ uploads.cleanUp \subseteq procs[s].toCleanUp
     /\ \A s \in Slots :
          (/\ Steps(s) /\ procs[s].op = "upload" /\ procs[s].pc = "save"
           /\ procs'[s].resp.status # "success")
          => /\ Code(procs'[s].resp) = "E1008"
             /\ db' = db
             /\ uploads'.cleanUp = uploads.cleanUp
     /\ \A s \in Slots :
          (/\ Steps(s) /\ procs'[s].op = "upload"
           /\ procs'[s].b.icon \notin {"image/png", "image/jpeg"})
          => uploads'.cleanUp \subseteq uploads.cleanUp]_vars

\* a second upload replaced the icon of catalog 1 and handed the first file to cleanUp
C21_Witness ==
  /\ db["Catalog"][1].icon = "catalogs/f2"
  /\ "catalogs/f1" \in uploads.cleanUp
  /\ "catalogs/f1" \in uploads.stored
  /\ \E s \in Slots : procs[s].op = "upload" /\ procs[s].resp.status = "success"

----------------------------------------------------------------------------
(* Concurrent requests on one row.                                         *)

\* slot s holds a finished request op on row id of entity e that answered success
Succeeded(pr, s, op, e, id) ==
  /\ pr[s].op = op /\ pr[s].pc = "done" /\ pr[s].ent = e /\ pr[s].id = id
  /\ pr[s].resp.status = "success"

\* the attributes of entity e that bodies b1 and b2 both carry
BothCarry(e, b1, b2) ==
  {f \in Writable(e) : ~IsUndefined(f, b1[f]) /\ ~IsUndefined(f, b2[f])}

(* C22: while the store answers every call, the save of an Update answers success
   whether or not the row was written after the handler read it; and when it comes
   after the save of another successful Update of the same row, it leaves every
   attribute both bodies carry at its own body's value. *)
C22_LastWriteWins ==
  [][\A s \in Slots :
       LET p == procs[s] IN
       (Steps(s) /\ p.op = "update" /\ p.pc = "save")
         => /\ procs'[s].resp.status = "success"
            /\ \A o \in Slots \ {s} :
                 Succeeded(procs, o, "update", p.ent, p.id)
                   => \A f \in BothCarry(p.ent, p.b, procs[o].b) :
                        db'[p.ent][p.id][f] = p.b[f]]_vars

\* only two requests ran, PUT /size/1 {name: Large, cpus: 4, ...} and PUT /size/1
\* {name: Huge}; the second read the row before the first saved (its answer still
\* shows the cpus it read) and saved after it: the stored name is Huge
C22_Witness ==
  /\ started = 2
  /\ \E s1, s2 \in Slots :
       /\ Succeeded(procs, s1, "update", "Size", 1) /\ Succeeded(procs, s2, "update", "Size", 1)
       /\ procs[s1].b.name = "Large" /\ procs[s1].b.cpus = 4
       /\ procs[s2].b.name = "Huge"
       /\ procs[s2].resp.payload.cpus = 2
       /\ db["Size"][1].name = "Huge"

----------------------------------------------------------------------------
(* Identity of a row.                                                      *)

(* C23: no step changes the id, the createdBy or the createdAt of a stored row, and
   in every state the i-th row of an entity carries the id i, so no two rows of one
   entity share an id. *)
C23_IdAndCreatorFixed ==
  [][\A e \in Entities :
       /\ Len(db'[e]) >= Len(db[e])
       /\ \A i \in 1..Len(db[e]) :
            /\ db'[e][i].id = db[e][i].id
            /\ db'[e][i].createdBy = db[e][i].createdBy
            /\ db'[e][i].createdAt = db[e][i].createdAt
       /\ \A i, j \in 1..Len(db'[e]) : db'[e][i].id = db'[e][j].id => i = j]_vars

\* catalog 2, created by u1, has since been given an icon by an Upload and been
\* soft-deleted by a Delete of another principal
C23_Witness ==
  /\ Len(db["Catalog"]) = 2
  /\ db["Catalog"][2].id = 2
  /\ db["Catalog"][2].createdBy = "u1"
  /\ db["Catalog"][2].icon \in {"catalogs/f2", "catalogs/f3"}
  /\ db["Catalog"][2].deletedAt # 0
  /\ \E s \in Slots :
       Succeeded(procs, s, "delete", "Catalog", 2) /\ procs[s].user = "undefined"

----------------------------------------------------------------------------
(* OsTemplate update: the availableNetwork check.                          *)

\* net is one of the availableNetworks of the stored, not soft-deleted location id
MemberOf(d, id, net) ==
  Present(d, "Location", id) /\ Includes(d["Location"][id].availableNetworks, net)

(* C24: an OsTemplate update whose body carries availableNetwork checks it against
   the location the body names, when it names one that is found, and otherwise
   against the location stored on the template; the request is answered E1007
   "Provided availableNetwork is not part of location" exactly when the value is
   not among that location's availableNetworks. *)
C24_NetworkCheckedAgainstLocation ==
  [][\A s \in Slots :
       LET p == procs[s]
           q == procs'[s]
       IN /\ (/\ Steps(s) /\ Handles(s, "update", "OsTemplate") /\ p.pc = "location"
              /\ q.resp # Uncaught
              /\ p.b.availableNetwork # "undefined"
              /\ Present(db, "Location", p.b.location))
               => (q.resp = E1007("Provided availableNetwork is not part of location")
                     <=> ~MemberOf(db, p.b.location, p.b.availableNetwork))
          /\ (/\ Accepts(s) /\ q.op = "update" /\ q.ent = "OsTemplate"
              /\ q.id # NaN /\ Present(db, "OsTemplate", q.id)
              /\ q.resp # Uncaught
              /\ q.b.availableNetwork # "undefined"
              /\ q.b.location = 0 - 1 /\ q.b.osFamily = 0 - 1)
               => (q.resp = E1007("Provided availableNetwork is not part of location")
                     <=> ~MemberOf(db, db["OsTemplate"][q.id].location,
                                   q.b.availableNetwork))]_vars

(* C25: an OsTemplate update whose body names a location that is found and carries
   no availableNetwork goes on to its save whatever availableNetwork is stored, and
   the save, unless it throws, answers success and stores the new location, the
   stored availableNetwork staying as it was in the row the handler read. *)
C25_LocationChangeUnchecked ==
  [][\A s \in Slots :
       LET p == procs[s]
           q == procs'[s]
       IN /\ (/\ Steps(s) /\ Handles(s, "update", "OsTemplate") /\ p.pc = "location"
              /\ q.resp # Uncaught
              /\ p.b.availableNetwork = "undefined"
              /\ Present(db, "Location", p.b.location))
               => (q.pc = "save" /\ q.mem.location.id = p.b.location)
          /\ (/\ Steps(s) /\ Handles(s, "update", "OsTemplate") /\ p.pc = "save"
              /\ p.b.availableNetwork = "undefined" /\ p.b.location # 0 - 1
              /\ q.resp.status # "error")
               => /\ q.resp.status = "success"
                  /\ db'["OsTemplate"][p.id].location = p.b.location
                  /\ db'["OsTemplate"][p.id].availableNetwork = p.mem.availableNetwork]_vars

\* PUT /ostemplate/1 {osFamily: 1, location: 2} answered success: the template is
\* stored with location 2 and the network n1, which location 2 does not have
C25_Witness ==
  \E s \in Slots :
    /\ Succeeded(procs, s, "update", "OsTemplate", 1)
    /\ procs[s].b.location = 2 /\ procs[s].b.availableNetwork = "undefined"
    /\ db["OsTemplate"][1].location = 2
    /\ db["OsTemplate"][1].availableNetwork = "n1"
    /\ db["Location"][2].deletedAt = 0
    /\ ~Includes(db["Location"][2].availableNetworks, "n1")

----------------------------------------------------------------------------
(* Concurrent deletes, soft-deleted rows and references.                   *)

\* slot s holds a finished Delete of row id of entity e
Deleted(s, e, id) ==
  procs[s].op = "delete" /\ procs[s].pc = "done" /\ procs[s].ent = e /\ procs[s].id = id

(* C26: when the only two requests so far are Deletes of the same row and the store
   answers every call, at most one of them answers success and every other one
   answers E1006, however their steps interleave. *)
C26_OneDeleteSucceeds ==
  \A s1, s2 \in Slots, e \in Entities :
    (s1 # s2 /\ started = 2 /\ Deleted(s1, e, 1) /\ Deleted(s2, e, 1))
      => /\ ~(procs[s1].resp.status = "success" /\ procs[s2].resp.status = "success")
         /\ \A s \in {s1, s2} : procs[s].resp.status # "success" => procs[s].resp = E1006

(* C27: a row that is soft-deleted stays soft-deleted: no step of an Update, an
   Upload or a Delete that read the row earlier clears its deletedAt, so the row is
   never again returned by Get-by-id or List. *)
C27_SoftDeletedStaysDeleted ==
  [][\A e \in Entities :
       \A i \in 1..Len(db[e]) :
         db[e][i].deletedAt # 0 => (db'[e][i].deletedAt # 0 /\ ~Visible(db', e, i))]_vars

(* C28: every OsTemplate that is not soft-deleted references an OsFamily and a
   Location that are not soft-deleted, and every Catalog that is not soft-deleted
   references an OsTemplate and an ApprovalPolicy that are not soft-deleted. *)
C28_LiveRowsReferenceLiveRows ==
  \A e \in {"OsTemplate", "Catalog"} :
    \A i \in 1..Len(db[e]) :
      db[e][i].deletedAt = 0 =>
        \A f \in RelFields(e) : Present(db, RelTarget(f), db[e][i][f])

----------------------------------------------------------------------------
(* Requests during start-up.                                               *)

(* C30: a request accepted while the data source is not initialised (DB.init() has
   not completed, or has failed) is answered with an error envelope: its handler
   returns having sent status "error" with a code and a message. *)
C30_AnsweredBeforeInit ==
  [][\A s \in Slots :
       (Accepts(s) /\ datastore # "initialized")
         => /\ procs'[s].pc = "done"
            /\ procs'[s].resp.status = "error"
            /\ {"code", "error"} \subseteq DOMAIN procs'[s].resp]_vars

====
